---- MODULE Spec2Model ----
(***************************************************************************)
(* s3-backup-helper: the backup pass (main of the paginated, incremental   *)
(* version) and the restore pass (restore/main.go), as one state machine   *)
(* over the two object stores.  A "run" is one execution of one of the two *)
(* programs; the stores persist between runs, the process state does not.  *)
(*                                                                         *)
(* The per-object closures are modelled with per-iteration loop variables  *)
(* (each goroutine sees its own object.Key).                               *)
(***************************************************************************)
EXTENDS Integers, Sequences, FiniteSets, TLC

\* ------------------------------------------------------------------ bounds
MaxObjects == 3      \* objects in the source bucket: keys 1..n, n <= MaxObjects
PageSize   == 2      \* keys per listing page
MaxBudget  == 2      \* PALALELL_NUM is drawn from -MaxNegBudget..MaxBudget
MaxNegBudget == 1    \* ... which takes in zero and the negative numbers down to this
MaxRuns    == 2      \* program executions in one behaviour
MaxEdits   == 1      \* external overwrites of a source object between runs
MaxEditKey == 1      \* ... which touch the keys 1..MaxEditKey
MaxBodyLen == 3      \* longest source body
BlockSize  == 2      \* snappy maxBlockSize (65536 in the library), scaled
IoBufSize  == 1      \* io.Copy's transfer buffer (32 KiB in the library), scaled

Keys  == 1..MaxObjects
Bytes == {1, 2}

\* ------------------------------------------------------ snappy framing
MagicChunk == <<255>>        \* stream identifier chunk
ChunkTypeData == 1           \* data chunk

RECURSIVE SumBytes(_)
SumBytes(s) == IF s = <<>> THEN 0 ELSE Head(s) + SumBytes(Tail(s))

\* checksum carried by every data chunk
Crc(block) == (7 * SumBytes(block) + Len(block)) % 16

\* one data chunk: type, length, checksum, payload
Chunk(block) == <<ChunkTypeData, Len(block), Crc(block)>> \o block

Take(s, n) == SubSeq(s, 1, IF n < Len(s) THEN n ELSE Len(s))
Drop(s, n) == SubSeq(s, (IF n < Len(s) THEN n ELSE Len(s)) + 1, Len(s))

\* A buffered snappy.Writer: ibuf holds the bytes not yet emitted, hdr tells
\* whether the stream header was written, out is everything emitted to the
\* underlying io.Writer so far.
NewBufferedWriter == [ibuf |-> <<>>, hdr |-> FALSE, out |-> <<>>]

\* Writer.write: emit p as chunks of at most BlockSize bytes, the stream
\* header first if it was not written yet.
RECURSIVE SnappyEmit(_, _)
SnappyEmit(w, p) ==
    IF p = <<>> THEN w
    ELSE SnappyEmit([w EXCEPT !.hdr = TRUE,
                              !.out = @ \o (IF w.hdr THEN <<>> ELSE MagicChunk)
                                        \o Chunk(Take(p, BlockSize))],
                    Drop(p, BlockSize))

\* Writer.Flush: emit the buffered bytes; nothing at all for an empty buffer.
SnappyFlush(w) ==
    IF w.ibuf = <<>> THEN w
    ELSE SnappyEmit([w EXCEPT !.ibuf = <<>>], w.ibuf)

\* Writer.Write of a buffered writer (after bufio.Writer.Write).
RECURSIVE SnappyWrite(_, _)
SnappyWrite(w, p) ==
    LET free == BlockSize - Len(w.ibuf) IN
    IF Len(p) > free
    THEN IF w.ibuf = <<>>
         THEN SnappyEmit(w, p)
         ELSE SnappyWrite(SnappyFlush([w EXCEPT !.ibuf = @ \o Take(p, free)]),
                          Drop(p, free))
    ELSE [w EXCEPT !.ibuf = @ \o p]

\* Writer.Close is Flush plus marking the writer closed.
SnappyClose(w) == SnappyFlush(w)

\* io.Copy(dst, src): hand the reader's bytes to the writer in pieces of at
\* most IoBufSize bytes.
RECURSIVE IoCopy(_, _)
IoCopy(w, body) ==
    IF body = <<>> THEN w
    ELSE IoCopy(SnappyWrite(w, Take(body, IoBufSize)), Drop(body, IoBufSize))

\* The compressed stream of a whole body, by the format's definition:
\* empty for an empty body, else the header and one chunk per block.
RECURSIVE Blocks(_)
Blocks(b) == IF b = <<>> THEN <<>>
             ELSE Chunk(Take(b, BlockSize)) \o Blocks(Drop(b, BlockSize))

Compress(b) == IF b = <<>> THEN <<>> ELSE MagicChunk \o Blocks(b)

\* snappy.Reader: skip the stream identifier, decode data chunks, fail on a
\* bad checksum or a malformed chunk.  Result: [ok, data].
RECURSIVE Decompress(_)
Decompress(c) ==
    IF c = <<>> THEN [ok |-> TRUE, data |-> <<>>]
    ELSE IF Head(c) = Head(MagicChunk) THEN Decompress(Tail(c))
    ELSE IF Head(c) = ChunkTypeData /\ Len(c) >= 3 /\ Len(c) >= 3 + c[2]
         THEN LET block == SubSeq(c, 4, 3 + c[2])
                  rest  == Decompress(SubSeq(c, 4 + c[2], Len(c)))
              IN IF Crc(block) = c[3] /\ rest.ok
                 THEN [ok |-> TRUE, data |-> block \o rest.data]
                 ELSE [ok |-> FALSE, data |-> <<>>]
         ELSE [ok |-> FALSE, data |-> <<>>]

\* ------------------------------------------------------------- digests
\* md5.Sum, scaled to one byte.
RECURSIVE Md5Fold(_, _)
Md5Fold(h, s) == IF s = <<>> THEN h
                 ELSE Md5Fold((h * 31 + Head(s) + 17) % 256, Tail(s))

Md5Sum(s) == Md5Fold(212, s)

HexDigits == <<"0","1","2","3","4","5","6","7","8","9","a","b","c","d","e","f">>

\* fmt.Sprintf("%x", digest)
Hex(h) == <<HexDigits[(h \div 16) + 1], HexDigits[(h % 16) + 1]>>

\* ------------------------------------------------------------ metadata
\* A *string field of s3.GetObjectOutput is <<>> (nil) or <<v>>; a map is nil
\* or a set of <<key, value>> pairs.
NilMap == [nil |-> TRUE, kv |-> {}]

NoMeta == [ContentType |-> <<>>, ContentEncoding |-> <<>>,
           ContentDisposition |-> <<>>, ContentLanguage |-> <<>>,
           CacheControl |-> <<>>, Metadata |-> NilMap]

SomeMeta == [ContentType |-> <<"image/png">>, ContentEncoding |-> <<>>,
             ContentDisposition |-> <<>>, ContentLanguage |-> <<"ja">>,
             CacheControl |-> <<>>,
             Metadata |-> [nil |-> FALSE, kv |-> {<<"owner", "traP">>}]]

AllMeta == [ContentType |-> <<"text/plain">>, ContentEncoding |-> <<"identity">>,
            ContentDisposition |-> <<"inline">>, ContentLanguage |-> <<"en">>,
            CacheControl |-> <<"no-cache">>,
            Metadata |-> [nil |-> FALSE, kv |-> {<<"owner", "traP">>, <<"rev", "2">>}]]

Metas == {NoMeta, SomeMeta, AllMeta}

\* The fields of a fresh storage.Writer (ObjectAttrs zero value).
ZeroAttrs == [ContentType |-> "", ContentEncoding |-> "",
              ContentDisposition |-> "", ContentLanguage |-> "",
              CacheControl |-> "", Metadata |-> NilMap]

\* m[key] = value for every pair of src, on a map made if it was nil
MergeMap(dst, src) ==
    [nil |-> FALSE,
     kv  |-> {p \in dst.kv : \A q \in src.kv : q[1] # p[1]} \cup src.kv]

\* The copy in which the content disposition lands in the content language.
CopyMeta_Misassigned(w, o) ==
    [ContentType        |-> IF o.ContentType # <<>> THEN o.ContentType[1] ELSE w.ContentType,
     ContentEncoding    |-> IF o.ContentEncoding # <<>> THEN o.ContentEncoding[1] ELSE w.ContentEncoding,
     ContentDisposition |-> w.ContentDisposition,
     ContentLanguage    |-> IF o.ContentDisposition # <<>> THEN o.ContentDisposition[1]
                            ELSE IF o.ContentLanguage # <<>> THEN o.ContentLanguage[1]
                            ELSE w.ContentLanguage,
     CacheControl       |-> IF o.CacheControl # <<>> THEN o.CacheControl[1] ELSE w.CacheControl,
     Metadata           |-> IF ~o.Metadata.nil THEN MergeMap(w.Metadata, o.Metadata)
                            ELSE w.Metadata]

\* The field-by-field copy of the source's metadata onto the writer.
CopyMeta(w, o) ==
    [ContentType        |-> IF o.ContentType # <<>> THEN o.ContentType[1] ELSE w.ContentType,
     ContentEncoding    |-> IF o.ContentEncoding # <<>> THEN o.ContentEncoding[1] ELSE w.ContentEncoding,
     ContentDisposition |-> IF o.ContentDisposition # <<>> THEN o.ContentDisposition[1] ELSE w.ContentDisposition,
     ContentLanguage    |-> IF o.ContentLanguage # <<>> THEN o.ContentLanguage[1] ELSE w.ContentLanguage,
     CacheControl       |-> IF o.CacheControl # <<>> THEN o.CacheControl[1] ELSE w.CacheControl,
     Metadata           |-> IF ~o.Metadata.nil THEN MergeMap(w.Metadata, o.Metadata)
                            ELSE w.Metadata]

\* -------------------------------------------------------------- stores
\* The source bucket's objects at the start: key k of 1..n.
SampleBodies == <<<<1, 2, 1, 1>>, <<>>, <<2>>, <<2, 1>>, <<1, 2, 2, 1, 2>>>>
SampleMetas  == <<SomeMeta, NoMeta, AllMeta>>

\* The bodies an object may have.
Bodies == {Take(SampleBodies[i], MaxBodyLen) : i \in 1..Len(SampleBodies)}

InitObject(k) ==
    [body |-> Take(SampleBodies[((k - 1) % Len(SampleBodies)) + 1], MaxBodyLen),
     meta |-> SampleMetas[((k - 1) % Len(SampleMetas)) + 1]]

\* What an overwrite may put in an object's place.
Versions == {[body |-> Take(<<2, 1, 2, 2>>, MaxBodyLen), meta |-> AllMeta]}

GcsAbsent == [exists |-> FALSE, content |-> <<>>, md5 |-> 0, attrs |-> ZeroAttrs]

\* What the archive holds once a write stream with these bytes is closed.
GcsObject(content, attrs) ==
    [exists |-> TRUE, content |-> content, md5 |-> Md5Sum(content), attrs |-> attrs]

\* ----------------------------------------------------------- variables
VARIABLES
    s3,             \* source bucket: key -> [body, meta]
    gcs,            \* archive bucket: key -> GcsAbsent or a stored object
    prog,           \* "idle", "backup", "restore": the program running
    pc,             \* position of the main goroutine
    runs,           \* program executions started
    edits,          \* external overwrites of source objects done
    palalellNum,    \* PALALELL_NUM, the same for every run of a behaviour
    fullBackup,     \* FULL_BACKUP, likewise
    pager,          \* objectPaginator: [first, token]
    page,           \* page.Contents of the current page
    idx,            \* index of the loop over page.Contents
    totalObjects, skippedObjects, totalErrors,
    errs,           \* the error slice
    sem,            \* executionLimit: permits held (cur)
    wg,             \* the WaitGroup counter
    task,           \* key -> the state of its two goroutines
    summary,        \* <<>> or <<the printed completion line>>
    webhookSent,    \* postWebhook was called
    rit,            \* restore: the object iterator's position
    robj,           \* restore: the object being restored
    listErrs,       \* restore: times the iterator has returned its error
    hist,           \* history: what earlier runs established
    ghost,          \* history of the current run, per key
    tally           \* history of the current run: outcomes (restore: attempts
                    \* and failures) by kind

vars == <<s3, gcs, prog, pc, runs, edits, palalellNum, fullBackup, pager, page,
          idx, totalObjects, skippedObjects, totalErrors, errs, sem, wg, task,
          summary, webhookSent, rit, robj, listErrs, hist, ghost, tally>>

storeVars  == <<s3, gcs>>
envVars    == <<palalellNum, fullBackup>>
listVars   == <<pager, page, idx>>
countVars  == <<totalObjects, skippedObjects, totalErrors, errs>>
restoreVars == <<rit, robj, listErrs>>

\* The state of one object's outer and inner goroutine.
IdleTask ==
    [outer |-> "none", inner |-> "none",
     errCh |-> <<>>,              \* chan error, capacity 1
     err   |-> "nil",             \* the outer goroutine's err
     body  |-> <<>>,              \* unread rest of s3ObjectOutput.Body
     out   |-> NoMeta,            \* s3ObjectOutput's metadata fields
     attrs |-> GcsAbsent,         \* gcsObjectAttrs
     hashWriter   |-> NewBufferedWriter, hashOpen   |-> FALSE,
     snappyWriter |-> NewBufferedWriter, snappyOpen |-> FALSE,
     gcsObjectWriter |-> ZeroAttrs,
     regSkip |-> 0,               \* skippedObjects as read by the increment
     regErrs |-> <<>>]            \* errs as read by the append

\* What is remembered of an object's task.  The counts stay for the rest of the
\* run; the path taken is kept until the outer goroutine has the outcome.
IdleGhost ==
    [launched |-> FALSE,
     acquired |-> 0, released |-> 0,      \* permits taken for / returned by the task
     sent |-> 0,                          \* sends on errCh
     recvd |-> 0,                         \* receives from errCh
     outcome |-> "none",                  \* "Succeeded", "Skipped", "Failed" once sent
     getOk |-> FALSE, attrsOk |-> FALSE, hashOk |-> FALSE,
     wopened |-> FALSE,                   \* a destination write stream was made
     src |-> [body |-> <<>>, meta |-> NoMeta],  \* the source object as GetObject saw it
     dst |-> GcsAbsent]                   \* the archive object when the task started

\* The outcome is received: only the counts are kept.
Settled(g) ==
    [IdleGhost EXCEPT !.launched = g.launched, !.acquired = g.acquired,
                      !.released = g.released, !.sent = g.sent, !.recvd = g.recvd + 1]

\* The outcomes delivered in this run, by kind.
IdleTally == [Succeeded |-> 0, Skipped |-> 0, Failed |-> 0]

IdleHist ==
    [prevCleanInc |-> FALSE,  \* the last run was a failure-free incremental backup and
                              \* the source was not touched since
     second  |-> FALSE,       \* this run is the second of two such passes
     clean   |-> TRUE,        \* no storage operation failed in this run so far
     gcs0    |-> [k \in Keys |-> GcsAbsent],  \* the archive when this run started
     backed  |-> [k \in Keys |-> <<>>],   \* source object of the stored backup of k
     restored |-> {}]         \* keys restored from their stored backup, untouched since

ProcessInit ==
    /\ pager = [first |-> TRUE, token |-> 0]
    /\ page = <<>>
    /\ idx = 1
    /\ totalObjects = 0 /\ skippedObjects = 0 /\ totalErrors = 0
    /\ errs = <<>>
    /\ sem = 0
    /\ wg = 0
    /\ task = [k \in Keys |-> IdleTask]
    /\ summary = <<>>
    /\ webhookSent = FALSE
    /\ rit = 1
    /\ robj = 0
    /\ listErrs = 0
    /\ ghost = [k \in Keys |-> IdleGhost]
    /\ tally = IdleTally

Init ==
    /\ \E n \in 0..MaxObjects : s3 = [k \in 1..n |-> InitObject(k)]
    /\ gcs = [k \in Keys |-> GcsAbsent]
    /\ prog = "idle"
    /\ pc = "idle"
    /\ runs = 0
    /\ edits = 0
    /\ palalellNum \in -MaxNegBudget..MaxBudget   \* init(): PALALELL_NUM, FULL_BACKUP
    /\ fullBackup \in BOOLEAN
    /\ hist = IdleHist
    /\ ProcessInit

\* --------------------------------------------------- runs and the world
Running == prog = "backup" /\ pc \notin {"return", "fatal"}

\* The start of main: the counters, the semaphore, the paginator and the
\* WaitGroup are made.
StartBackup ==
    /\ prog = "idle" /\ runs < MaxRuns
    /\ prog' = "backup" /\ pc' = "loop"
    /\ runs' = runs + 1
    /\ hist' = [hist EXCEPT !.second = (~fullBackup /\ hist.prevCleanInc),
                            !.prevCleanInc = FALSE,
                            !.clean = TRUE,
                            !.gcs0 = gcs]
    /\ UNCHANGED <<storeVars, edits, envVars, listVars, countVars, sem, wg, task,
                   summary, webhookSent, restoreVars, ghost, tally>>

\* The start of the restore program's main.
StartRestore ==
    /\ prog = "idle" /\ runs < MaxRuns
    /\ prog' = "restore" /\ pc' = "rnext"
    /\ runs' = runs + 1
    /\ hist' = [hist EXCEPT !.second = FALSE, !.prevCleanInc = FALSE,
                            !.clean = TRUE, !.gcs0 = gcs]
    /\ UNCHANGED <<storeVars, edits, envVars, listVars, countVars, sem, wg, task,
                   summary, webhookSent, restoreVars, ghost, tally>>

\* The process ends (main returned, or log.Fatalf exited): its goroutines and
\* variables are gone, the stores stay.
Exit ==
    /\ pc \in {"return", "fatal", "rreturn"}
    /\ prog' = "idle" /\ pc' = "idle"
    /\ hist' = [hist EXCEPT !.prevCleanInc =
                                (pc = "return" /\ ~fullBackup /\ hist.clean),
                            !.second = FALSE, !.clean = TRUE,
                            !.gcs0 = [k \in Keys |-> GcsAbsent]]
    /\ pager' = [first |-> TRUE, token |-> 0]
    /\ page' = <<>> /\ idx' = 1
    /\ totalObjects' = 0 /\ skippedObjects' = 0 /\ totalErrors' = 0
    /\ errs' = <<>> /\ sem' = 0 /\ wg' = 0
    /\ task' = [k \in Keys |-> IdleTask]
    /\ summary' = <<>> /\ webhookSent' = FALSE
    /\ rit' = 1 /\ robj' = 0 /\ listErrs' = 0
    /\ ghost' = [k \in Keys |-> IdleGhost]
    /\ tally' = IdleTally
    /\ UNCHANGED <<storeVars, runs, edits, envVars>>

\* Somebody overwrites a source object between two runs.
Edit(k, body, meta) ==
    /\ prog = "idle" /\ edits < MaxEdits
    /\ runs > 0
    /\ k \in DOMAIN s3 /\ k <= MaxEditKey
    /\ s3[k] # [body |-> body, meta |-> meta]
    /\ s3' = [s3 EXCEPT ![k] = [body |-> body, meta |-> meta]]
    /\ edits' = edits + 1
    /\ hist' = [hist EXCEPT !.prevCleanInc = FALSE, !.restored = @ \ {k}]
    /\ UNCHANGED <<gcs, prog, pc, runs, envVars, listVars, countVars, sem, wg,
                   task, summary, webhookSent, restoreVars, ghost, tally>>

\* ------------------------------------------------------ backup: main
NumObjects == Cardinality(DOMAIN s3)

\* objectPaginator.HasMorePages()
HasMorePages == pager.first \/ pager.token # 0

\* The page whose end is not cut at the end of the listing.
PageFrom_Unclamped(tok) ==
    LET from == IF tok = 0 THEN 1 ELSE tok
    IN [i \in 1..PageSize |-> from + i - 1]

\* The keys ListObjectsV2 returns for the continuation token.
PageFrom(tok) ==
    LET from == IF tok = 0 THEN 1 ELSE tok
        to   == IF from + PageSize - 1 < NumObjects THEN from + PageSize - 1
                ELSE NumObjects
    IN [i \in 1..(to - from + 1) |-> from + i - 1]

NextToken(tok) ==
    LET from == IF tok = 0 THEN 1 ELSE tok
    IN IF from + PageSize <= NumObjects THEN from + PageSize ELSE 0

\* objectPaginator.NextPage succeeds: the loop over page.Contents starts.
NextPage ==
    /\ prog = "backup" /\ pc = "loop" /\ HasMorePages
    /\ page' = PageFrom(pager.token)
    /\ pager' = [first |-> FALSE, token |-> NextToken(pager.token)]
    /\ idx' = 1
    /\ pc' = IF PageFrom(pager.token) = <<>> THEN "wait" ELSE "acquire"
    /\ UNCHANGED <<storeVars, prog, runs, edits, envVars, countVars, sem, wg,
                   task, summary, webhookSent, restoreVars, hist, ghost, tally>>

\* objectPaginator.NextPage fails: log.Fatalf ends the process.
NextPageFail ==
    /\ prog = "backup" /\ pc = "loop" /\ HasMorePages
    /\ pc' = "fatal"
    /\ hist' = [hist EXCEPT !.clean = FALSE]
    /\ UNCHANGED <<storeVars, prog, runs, edits, envVars, listVars, countVars,
                   sem, wg, task, summary, webhookSent, restoreVars, ghost, tally>>

\* Acquire that returns at once when the request exceeds the semaphore's size.
CanAcquire_Doomed == palalellNum < 1 \/ palalellNum - sem >= 1

\* Acquire that lets one caller too many through.
CanAcquire_OffByOne == palalellNum - sem >= 0

\* semaphore.Weighted.Acquire(ctx, 1) with a context that is never cancelled:
\* returns once a permit is free; for a size below 1 the request can never be
\* met and the call waits for the context, that is, for ever.
CanAcquire == palalellNum - sem >= 1

\* The dispatch that counts the objects of the current page only.
Dispatch_PageCount ==
    /\ prog = "backup" /\ pc = "acquire"
    /\ CanAcquire
    /\ wg' = wg + 1
    /\ LET k == page[idx] IN
        /\ sem' = sem + 1
        /\ totalObjects' = idx
        /\ task' = [task EXCEPT ![k] = [IdleTask EXCEPT !.outer = "recv",
                                                        !.inner = "get"]]
        /\ ghost' = [ghost EXCEPT ![k] = [IdleGhost EXCEPT !.launched = TRUE,
                                                           !.acquired = 1,
                                                           !.dst = gcs[k]]]
    /\ idx' = idx + 1
    /\ pc' = IF idx + 1 > Len(page) THEN "wait" ELSE "acquire"
    /\ UNCHANGED <<storeVars, prog, runs, edits, envVars, pager, page,
                   skippedObjects, totalErrors, errs, summary, webhookSent,
                   restoreVars, hist, tally>>

\* wg.Add(1); executionLimit.Acquire returns; totalObjects++; both goroutines
\* of the object start; bar.Increment(); next object, or the end of the page.
Dispatch ==
    /\ prog = "backup" /\ pc = "acquire"
    /\ CanAcquire
    /\ wg' = wg + 1
    /\ LET k == page[idx] IN
        /\ sem' = sem + 1
        /\ totalObjects' = totalObjects + 1
        /\ task' = [task EXCEPT ![k] = [IdleTask EXCEPT !.outer = "recv",
                                                        !.inner = "get"]]
        /\ ghost' = [ghost EXCEPT ![k] = [IdleGhost EXCEPT !.launched = TRUE,
                                                           !.acquired = 1,
                                                           !.dst = gcs[k]]]
    /\ idx' = idx + 1
    /\ pc' = IF idx + 1 > Len(page) THEN "wait" ELSE "acquire"
    /\ UNCHANGED <<storeVars, prog, runs, edits, envVars, pager, page,
                   skippedObjects, totalErrors, errs, summary, webhookSent,
                   restoreVars, hist, tally>>

\* The barrier that lets the loop go on while one task is still counted.
WaitPage_OneLeft ==
    /\ prog = "backup" /\ pc = "wait"
    /\ wg <= 1
    /\ pc' = "loop"
    /\ UNCHANGED <<storeVars, prog, runs, edits, envVars, listVars, countVars,
                   sem, wg, task, summary, webhookSent, restoreVars, hist, ghost, tally>>

\* The page loop without its barrier.
WaitPage_NoBarrier ==
    /\ prog = "backup" /\ pc = "wait"
    /\ pc' = "loop"
    /\ UNCHANGED <<storeVars, prog, runs, edits, envVars, listVars, countVars,
                   sem, wg, task, summary, webhookSent, restoreVars, hist, ghost, tally>>

\* bar.Finish(); wg.Wait() returns when the counter is zero.
WaitPage ==
    /\ prog = "backup" /\ pc = "wait"
    /\ wg = 0
    /\ pc' = "loop"
    /\ UNCHANGED <<storeVars, prog, runs, edits, envVars, listVars, countVars,
                   sem, wg, task, summary, webhookSent, restoreVars, hist, ghost, tally>>

\* No more pages: totalErrors += len(errs), the completion line is printed,
\* postWebhook is called (its result is not looked at) and main returns.
Finish ==
    /\ prog = "backup" /\ pc = "loop" /\ ~HasMorePages
    /\ totalErrors' = totalErrors + Len(errs)
    /\ summary' = <<[total |-> totalObjects, skipped |-> skippedObjects,
                     errors |-> totalErrors + Len(errs)]>>
    /\ webhookSent' = TRUE
    /\ pc' = "return"
    /\ UNCHANGED <<storeVars, prog, runs, edits, envVars, listVars, totalObjects,
                   skippedObjects, errs, sem, wg, task, restoreVars, hist, ghost,
                   tally>>

\* --------------------------------------- backup: the inner goroutine
\* what a step of an object's goroutines leaves alone
mainVars == <<prog, pc, runs, edits, envVars, listVars, totalObjects,
              totalErrors, summary, webhookSent, restoreVars>>

\* errCh <- v on the channel of capacity 1
CanSend(k) == Len(task[k].errCh) < 1

\* errCh <- v, as the history sees it
Sent(g, kind) == [g EXCEPT !.sent = @ + 1, !.outcome = kind]

Count(kind) == [tally EXCEPT ![kind] = @ + 1]

\* The goroutine has returned: its locals are dropped.
Returned(t) ==
    [t EXCEPT !.inner = "done",
              !.body = <<>>, !.out = NoMeta, !.attrs = GcsAbsent,
              !.hashWriter = NewBufferedWriter, !.hashOpen = FALSE,
              !.snappyWriter = NewBufferedWriter, !.snappyOpen = FALSE,
              !.gcsObjectWriter = ZeroAttrs, !.regSkip = 0]

\* errCh <- v; return.  What is left to the goroutine are its deferred Close
\* calls: only the two compressors, with what they still buffer, are kept.
Sending(t, v) ==
    [t EXCEPT !.errCh = Append(@, v),
              !.inner = "defers",
              !.body = <<>>, !.out = NoMeta, !.attrs = GcsAbsent,
              !.hashWriter = [@ EXCEPT !.out = <<>>],
              !.snappyWriter = [@ EXCEPT !.out = <<>>],
              !.gcsObjectWriter = ZeroAttrs, !.regSkip = 0]

\* The read that is followed by the skip check in full mode too.
GetObject_AlwaysCheck(k) ==
    /\ Running /\ task[k].inner = "get"
    /\ task' = [task EXCEPT ![k].body = s3[k].body,
                            ![k].out = s3[k].meta,
                            ![k].inner = "attrs"]
    /\ ghost' = [ghost EXCEPT ![k].getOk = TRUE, ![k].src = s3[k]]
    /\ UNCHANGED <<mainVars, storeVars, skippedObjects, errs, sem, wg, hist, tally>>

\* s3Client.GetObject succeeds.
GetObject(k) ==
    /\ Running /\ task[k].inner = "get"
    /\ task' = [task EXCEPT ![k].body = s3[k].body,
                            ![k].out = s3[k].meta,
                            ![k].inner = IF fullBackup THEN "newwriter" ELSE "attrs"]
    /\ ghost' = [ghost EXCEPT ![k].getOk = TRUE, ![k].src = s3[k]]
    /\ UNCHANGED <<mainVars, storeVars, skippedObjects, errs, sem, wg, hist, tally>>

\* The read failure that returns without sending on errCh.
GetObjectFail_NoSend(k) ==
    /\ Running /\ task[k].inner = "get"
    /\ task' = [task EXCEPT ![k] = Returned(@)]
    /\ hist' = [hist EXCEPT !.clean = FALSE]
    /\ UNCHANGED <<mainVars, storeVars, skippedObjects, errs, sem, wg, ghost, tally>>

\* s3Client.GetObject fails: the error is sent and the goroutine returns.
GetObjectFail(k) ==
    /\ Running /\ task[k].inner = "get"
    /\ CanSend(k)
    /\ task' = [task EXCEPT ![k] = Returned([@ EXCEPT !.errCh = Append(@, "err")])]
    /\ ghost' = [ghost EXCEPT ![k] = Sent(@, "Failed")]
    /\ tally' = Count("Failed")
    /\ hist' = [hist EXCEPT !.clean = FALSE]
    /\ UNCHANGED <<mainVars, storeVars, skippedObjects, errs, sem, wg>>

\* gcsBucketClient.Object(key).Attrs returns the stored object's attributes.
Attrs(k) ==
    /\ Running /\ task[k].inner = "attrs"
    /\ gcs[k].exists
    /\ task' = [task EXCEPT ![k].attrs = gcs[k], ![k].inner = "hashcopy"]
    /\ ghost' = [ghost EXCEPT ![k].attrsOk = TRUE]
    /\ UNCHANGED <<mainVars, storeVars, skippedObjects, errs, sem, wg, hist, tally>>

\* Attrs returns ErrObjectNotExist: on to the write.
AttrsNotExist(k) ==
    /\ Running /\ task[k].inner = "attrs"
    /\ ~gcs[k].exists
    /\ task' = [task EXCEPT ![k].inner = "newwriter"]
    /\ UNCHANGED <<mainVars, storeVars, skippedObjects, errs, sem, wg, hist, ghost, tally>>

\* The failed lookup that is reported as the task's error.
AttrsFail_SendsError(k) ==
    /\ Running /\ task[k].inner = "attrs"
    /\ gcs[k].exists
    /\ CanSend(k)
    /\ task' = [task EXCEPT ![k] = Sending(@, "err")]
    /\ ghost' = [ghost EXCEPT ![k] = Sent(@, "Failed")]
    /\ tally' = Count("Failed")
    /\ hist' = [hist EXCEPT !.clean = FALSE]
    /\ UNCHANGED <<mainVars, storeVars, skippedObjects, errs, sem, wg>>

\* Attrs fails for another reason: on to the write as well.
AttrsFail(k) ==
    /\ Running /\ task[k].inner = "attrs"
    /\ gcs[k].exists
    /\ task' = [task EXCEPT ![k].inner = "newwriter"]
    /\ hist' = [hist EXCEPT !.clean = FALSE]
    /\ UNCHANGED <<mainVars, storeVars, skippedObjects, errs, sem, wg, ghost, tally>>

\* The comparison with its sense inverted.
DigestsEqual_Inverted(attrs, hashWriter) ==
    Hex(attrs.md5) # Hex(Md5Sum(hashWriter.out))

\* The comparison of the two hex digests, for the writer as flushed.
DigestsEqual(attrs, hashWriter) ==
    Hex(attrs.md5) = Hex(Md5Sum(hashWriter.out))

\* hashWriter := snappy.NewBufferedWriter(s3Hash); io.Copy(hashWriter, Body)
\* reads the body to its end; hashWriter.Flush(); the digests are compared.
HashCopy(k) ==
    /\ Running /\ task[k].inner = "hashcopy"
    /\ \E copied \in {IoCopy(NewBufferedWriter, task[k].body)} :
       \E w \in {SnappyFlush(copied)} :
         task' = [task EXCEPT ![k].hashWriter = w,
                              ![k].hashOpen = TRUE,
                              ![k].body = <<>>,
                              ![k].inner = IF DigestsEqual(task[k].attrs, w)
                                           THEN "skipload" ELSE "newwriter"]
    /\ ghost' = [ghost EXCEPT ![k].hashOk = TRUE]
    /\ UNCHANGED <<mainVars, storeVars, skippedObjects, errs, sem, wg, hist, tally>>

\* io.Copy into the hash fails: the error is sent.
HashCopyFail(k) ==
    /\ Running /\ task[k].inner = "hashcopy"
    /\ CanSend(k)
    /\ task' = [task EXCEPT ![k] = Sending([@ EXCEPT !.hashOpen = TRUE], "err")]
    /\ ghost' = [ghost EXCEPT ![k] = Sent(@, "Failed")]
    /\ tally' = Count("Failed")
    /\ hist' = [hist EXCEPT !.clean = FALSE]
    /\ UNCHANGED <<mainVars, storeVars, skippedObjects, errs, sem, wg>>

\* skippedObjects++ is a plain read ...
SkipLoad(k) ==
    /\ Running /\ task[k].inner = "skipload"
    /\ task' = [task EXCEPT ![k].regSkip = skippedObjects, ![k].inner = "skipstore"]
    /\ UNCHANGED <<mainVars, storeVars, skippedObjects, errs, sem, wg, hist, ghost, tally>>

\* ... and a plain write; then errCh <- nil.
SkipStore(k) ==
    /\ Running /\ task[k].inner = "skipstore"
    /\ CanSend(k)
    /\ skippedObjects' = task[k].regSkip + 1
    /\ task' = [task EXCEPT ![k] = Sending(@, "nil")]
    /\ ghost' = [ghost EXCEPT ![k] = Sent(@, "Skipped")]
    /\ tally' = Count("Skipped")
    /\ UNCHANGED <<mainVars, storeVars, errs, sem, wg, hist>>

\* gcsObjectWriter := NewWriter(ctx); the metadata copy;
\* snappyWriter := snappy.NewBufferedWriter(gcsObjectWriter);
\* io.Copy(snappyWriter, s3ObjectOutput.Body) copies what is left of the body.
Copy(k) ==
    /\ Running /\ task[k].inner = "newwriter"
    /\ task' = [task EXCEPT ![k].gcsObjectWriter = CopyMeta(ZeroAttrs, task[k].out),
                            ![k].snappyWriter = IoCopy(NewBufferedWriter, task[k].body),
                            ![k].snappyOpen = TRUE,
                            ![k].body = <<>>,
                            ![k].inner = "close"]
    /\ ghost' = [ghost EXCEPT ![k].wopened = TRUE]
    /\ UNCHANGED <<mainVars, storeVars, skippedObjects, errs, sem, wg, hist, tally>>

\* The same, but io.Copy into the compressor fails: the error is sent; the
\* write stream is never closed, so nothing is stored.
CopyFail(k) ==
    /\ Running /\ task[k].inner = "newwriter"
    /\ CanSend(k)
    /\ task' = [task EXCEPT ![k] = Sending([@ EXCEPT !.snappyOpen = TRUE], "err")]
    /\ ghost' = [ghost EXCEPT ![k] = [Sent(@, "Failed") EXCEPT !.wopened = TRUE]]
    /\ tally' = Count("Failed")
    /\ hist' = [hist EXCEPT !.clean = FALSE]
    /\ UNCHANGED <<mainVars, storeVars, skippedObjects, errs, sem, wg>>

\* snappyWriter.Flush(); gcsObjectWriter.Close() succeeds and stores the
\* object; errCh <- nil.
CloseWriter(k) ==
    /\ Running /\ task[k].inner = "close"
    /\ CanSend(k)
    /\ LET w == SnappyFlush(task[k].snappyWriter) IN
         /\ gcs' = [gcs EXCEPT ![k] = GcsObject(w.out, task[k].gcsObjectWriter)]
         /\ task' = [task EXCEPT ![k] = Sending([@ EXCEPT !.snappyWriter = w], "nil")]
    /\ ghost' = [ghost EXCEPT ![k] = Sent(@, "Succeeded")]
    /\ tally' = Count("Succeeded")
    /\ hist' = [hist EXCEPT !.backed[k] = <<ghost[k].src>>, !.restored = @ \ {k}]
    /\ UNCHANGED <<mainVars, s3, skippedObjects, errs, sem, wg>>

\* The failed close that leaves what was uploaded so far as the object.
CloseWriterFail_Partial(k) ==
    /\ Running /\ task[k].inner = "close"
    /\ CanSend(k)
    /\ gcs' = [gcs EXCEPT ![k] = GcsObject(task[k].snappyWriter.out, task[k].gcsObjectWriter)]
    /\ task' = [task EXCEPT ![k] = Sending([@ EXCEPT !.snappyWriter = SnappyFlush(@)], "err")]
    /\ ghost' = [ghost EXCEPT ![k] = Sent(@, "Failed")]
    /\ tally' = Count("Failed")
    /\ hist' = [hist EXCEPT !.clean = FALSE]
    /\ UNCHANGED <<mainVars, s3, skippedObjects, errs, sem, wg>>

\* gcsObjectWriter.Close() fails: the error is sent, nothing is stored.
CloseWriterFail(k) ==
    /\ Running /\ task[k].inner = "close"
    /\ CanSend(k)
    /\ task' = [task EXCEPT ![k] = Sending([@ EXCEPT !.snappyWriter = SnappyFlush(@)], "err")]
    /\ ghost' = [ghost EXCEPT ![k] = Sent(@, "Failed")]
    /\ tally' = Count("Failed")
    /\ hist' = [hist EXCEPT !.clean = FALSE]
    /\ UNCHANGED <<mainVars, storeVars, skippedObjects, errs, sem, wg>>

\* After the send the goroutine returns: the deferred snappyWriter.Close()
\* and hashWriter.Close() run, in that order, each flushing what its writer
\* still buffers into its sink.
Defers(k) ==
    /\ Running /\ task[k].inner = "defers"
    /\ LET t == task[k]
           u == Returned([t EXCEPT !.snappyWriter = IF t.snappyOpen THEN SnappyClose(@) ELSE @,
                                   !.hashWriter = IF t.hashOpen THEN SnappyClose(@) ELSE @])
       IN task' = [task EXCEPT ![k] = u]
    /\ UNCHANGED <<mainVars, storeVars, skippedObjects, errs, sem, wg, hist, ghost, tally>>

\* --------------------------------------- backup: the outer goroutine
\* err := <-errCh, nil
Receive(k) ==
    /\ Running /\ task[k].outer = "recv"
    /\ task[k].errCh # <<>> /\ Head(task[k].errCh) = "nil"
    /\ task' = [task EXCEPT ![k].errCh = Tail(@), ![k].err = "nil",
                            ![k].outer = "wgdone"]
    /\ ghost' = [ghost EXCEPT ![k] = Settled(@)]
    /\ UNCHANGED <<mainVars, storeVars, skippedObjects, errs, sem, wg, hist, tally>>

\* err := <-errCh, an error: log.Printf, then errs = append(errs, err), which
\* starts with a plain read of errs ...
ReceiveErr(k) ==
    /\ Running /\ task[k].outer = "recv"
    /\ task[k].errCh # <<>> /\ Head(task[k].errCh) # "nil"
    /\ task' = [task EXCEPT ![k].errCh = Tail(@), ![k].err = Head(task[k].errCh),
                            ![k].regErrs = errs,
                            ![k].outer = "append"]
    /\ ghost' = [ghost EXCEPT ![k] = Settled(@)]
    /\ UNCHANGED <<mainVars, storeVars, skippedObjects, errs, sem, wg, hist, tally>>

\* The append whose result is not assigned back.
AppendErr_Dropped(k) ==
    /\ Running /\ task[k].outer = "append"
    /\ errs' = task[k].regErrs
    /\ task' = [task EXCEPT ![k].regErrs = <<>>, ![k].err = "nil",
                            ![k].outer = "wgdone"]
    /\ UNCHANGED <<mainVars, storeVars, skippedObjects, sem, wg, hist, ghost, tally>>

\* ... and ends with a plain write of the longer slice.
AppendErr(k) ==
    /\ Running /\ task[k].outer = "append"
    /\ errs' = Append(task[k].regErrs, task[k].err)
    /\ task' = [task EXCEPT ![k].regErrs = <<>>, ![k].err = "nil",
                            ![k].outer = "wgdone"]
    /\ UNCHANGED <<mainVars, storeVars, skippedObjects, sem, wg, hist, ghost, tally>>

\* deferred wg.Done() runs first ...
WgDone(k) ==
    /\ Running /\ task[k].outer = "wgdone"
    /\ wg' = wg - 1
    /\ task' = [task EXCEPT ![k].outer = "release"]
    /\ UNCHANGED <<mainVars, storeVars, skippedObjects, errs, sem, hist, ghost, tally>>

\* The outer goroutine that returns without giving its permit back.
Release_Leak(k) ==
    /\ Running /\ task[k].outer = "release"
    /\ task' = [task EXCEPT ![k].outer = "done"]
    /\ UNCHANGED <<mainVars, storeVars, skippedObjects, errs, sem, wg, hist, ghost, tally>>

\* ... then deferred executionLimit.Release(1).
Release(k) ==
    /\ Running /\ task[k].outer = "release"
    /\ sem' = sem - 1
    /\ task' = [task EXCEPT ![k].outer = "done"]
    /\ ghost' = [ghost EXCEPT ![k].released = @ + 1]
    /\ UNCHANGED <<mainVars, storeVars, skippedObjects, errs, wg, hist, tally>>

\* ------------------------------------------------------------- restore
\* The archive's objects in listing order, from position rit on.
Remaining == {k \in Keys : k >= rit /\ gcs[k].exists}

Least(S) == CHOOSE k \in S : \A j \in S : k <= j

MaxListErrors == 2   \* times the object iterator's error is counted in one run

\* The object iterator keeps the first error of a listing request: once Next
\* has returned an error, every later call returns it again.
IteratorFailed == listErrs > 0

\* allObjects.Next() returns an object: totalObjects++.
RestoreNext ==
    /\ prog = "restore" /\ pc = "rnext"
    /\ ~IteratorFailed
    /\ Remaining # {}
    /\ robj' = Least(Remaining)
    /\ rit' = Least(Remaining) + 1
    /\ totalObjects' = totalObjects + 1
    /\ pc' = "rreader"
    /\ UNCHANGED <<storeVars, prog, runs, edits, envVars, listVars, skippedObjects,
                   totalErrors, errs, sem, wg, task, summary, webhookSent,
                   listErrs, hist, ghost, tally>>

\* allObjects.Next() returns an error, a listing request's that just failed or
\* the one the iterator kept: totalError++, continue (to the next call of Next).
RestoreNextFail ==
    /\ prog = "restore" /\ pc = "rnext"
    /\ listErrs < MaxListErrors
    /\ listErrs' = listErrs + 1
    /\ totalErrors' = totalErrors + 1
    /\ tally' = IF IteratorFailed THEN tally ELSE Count("Failed")
    /\ UNCHANGED <<storeVars, prog, pc, runs, edits, envVars, listVars,
                   totalObjects, skippedObjects, errs, sem, wg, task, summary,
                   webhookSent, rit, robj, hist, ghost>>

\* allObjects.Next() returns iterator.Done: the completion line is printed.
RestoreDone ==
    /\ prog = "restore" /\ pc = "rnext"
    /\ ~IteratorFailed
    /\ Remaining = {}
    /\ summary' = <<[total |-> totalObjects, skipped |-> 0, errors |-> totalErrors]>>
    /\ pc' = "rreturn"
    /\ UNCHANGED <<storeVars, prog, runs, edits, envVars, listVars, countVars,
                   sem, wg, task, webhookSent, restoreVars, hist, ghost, tally>>

\* gcsBucket.Object(name).NewReader succeeds.
RestoreReader ==
    /\ prog = "restore" /\ pc = "rreader"
    /\ pc' = "rupload"
    /\ UNCHANGED <<storeVars, prog, runs, edits, envVars, listVars, countVars,
                   sem, wg, task, summary, webhookSent, restoreVars, hist, ghost, tally>>

\* NewReader fails: totalError++, continue.
RestoreReaderFail ==
    /\ prog = "restore" /\ pc = "rreader"
    /\ totalErrors' = totalErrors + 1
    /\ tally' = Count("Failed")
    /\ pc' = "rnext"
    /\ UNCHANGED <<storeVars, prog, runs, edits, envVars, listVars, totalObjects,
                   skippedObjects, errs, sem, wg, task, summary, webhookSent,
                   restoreVars, hist, ghost>>

\* The s3.PutObjectInput of the upload: Bucket, Key and Body only.
PutObjectInput(content) ==
    [body |-> Decompress(content).data, meta |-> NoMeta]

\* s3Uploader.Upload of the decompressed stream succeeds.
RestoreUpload ==
    /\ prog = "restore" /\ pc = "rupload"
    /\ Decompress(gcs[robj].content).ok
    /\ s3' = [s3 EXCEPT ![robj] = PutObjectInput(gcs[robj].content)]
    /\ hist' = [hist EXCEPT !.restored = @ \cup {robj}]
    /\ tally' = Count("Succeeded")
    /\ pc' = "rnext"
    /\ UNCHANGED <<gcs, prog, runs, edits, envVars, listVars, countVars, sem, wg,
                   task, summary, webhookSent, restoreVars, ghost>>

\* Upload fails (the reader's or the store's error): totalError++, continue.
RestoreUploadFail ==
    /\ prog = "restore" /\ pc = "rupload"
    /\ totalErrors' = totalErrors + 1
    /\ tally' = Count("Failed")
    /\ pc' = "rnext"
    /\ UNCHANGED <<storeVars, prog, runs, edits, envVars, listVars, totalObjects,
                   skippedObjects, errs, sem, wg, task, summary, webhookSent,
                   restoreVars, hist, ghost>>

\* ---------------------------------------------------------------- Next
Next ==
    \/ StartBackup
    \/ StartRestore
    \/ Exit
    \/ \E k \in Keys, v \in Versions : Edit(k, v.body, v.meta)
    \/ NextPage
    \/ NextPageFail
    \/ Dispatch
    \/ WaitPage
    \/ Finish
    \/ \E k \in Keys : GetObject(k)
    \/ \E k \in Keys : GetObjectFail(k)
    \/ \E k \in Keys : Attrs(k)
    \/ \E k \in Keys : AttrsNotExist(k)
    \/ \E k \in Keys : AttrsFail(k)
    \/ \E k \in Keys : HashCopy(k)
    \/ \E k \in Keys : HashCopyFail(k)
    \/ \E k \in Keys : SkipLoad(k)
    \/ \E k \in Keys : SkipStore(k)
    \/ \E k \in Keys : Copy(k)
    \/ \E k \in Keys : CopyFail(k)
    \/ \E k \in Keys : CloseWriter(k)
    \/ \E k \in Keys : CloseWriterFail(k)
    \/ \E k \in Keys : Defers(k)
    \/ \E k \in Keys : Receive(k)
    \/ \E k \in Keys : ReceiveErr(k)
    \/ \E k \in Keys : AppendErr(k)
    \/ \E k \in Keys : WgDone(k)
    \/ \E k \in Keys : Release(k)
    \/ RestoreNext
    \/ RestoreNextFail
    \/ RestoreDone
    \/ RestoreReader
    \/ RestoreReaderFail
    \/ RestoreUpload
    \/ RestoreUploadFail

Spec == Init /\ [][Next]_vars

\* The steps of the main goroutine of the backup pass.
Main == NextPage \/ NextPageFail \/ Dispatch \/ WaitPage \/ Finish

\* The steps of the inner goroutine of object k.
Inner(k) ==
    \/ GetObject(k) \/ GetObjectFail(k)
    \/ Attrs(k) \/ AttrsNotExist(k) \/ AttrsFail(k)
    \/ HashCopy(k) \/ HashCopyFail(k)
    \/ SkipLoad(k) \/ SkipStore(k)
    \/ Copy(k) \/ CopyFail(k)
    \/ CloseWriter(k) \/ CloseWriterFail(k)
    \/ Defers(k)

\* The steps of the outer goroutine of object k.
Outer(k) == Receive(k) \/ ReceiveErr(k) \/ AppendErr(k) \/ WgDone(k) \/ Release(k)

\* What the Go scheduler and the stores give the backup pass: every goroutine
\* that can take a step takes one, and every storage operation that was
\* started returns, with its result or with an error.
Fairness ==
    /\ WF_vars(Main)
    /\ \A k \in Keys : WF_vars(Inner(k)) /\ WF_vars(Outer(k))

\* The archive object a failure-free backup of this source object leaves.
BackupOf(o) == GcsObject(Compress(o.body), CopyMeta(ZeroAttrs, o.meta))

\* One backup pass, started on a source bucket and an archive that is empty,
\* or holds the backup of every object, or holds them with the backup of an
\* older version for the key 1.
OnePassInit ==
    /\ \E n \in 0..MaxObjects : s3 = [k \in 1..n |-> InitObject(k)]
    /\ \E older \in Versions :
          gcs \in {[k \in Keys |-> GcsAbsent],
                   [k \in Keys |-> IF k \in DOMAIN s3 THEN BackupOf(s3[k]) ELSE GcsAbsent],
                   [k \in Keys |-> IF k \notin DOMAIN s3 THEN GcsAbsent
                                    ELSE IF k = 1 THEN BackupOf(older)
                                    ELSE BackupOf(s3[k])]}
    /\ prog = "idle"
    /\ pc = "idle"
    /\ runs = 0
    /\ edits = 0
    /\ palalellNum \in -MaxNegBudget..MaxBudget
    /\ fullBackup \in BOOLEAN
    /\ hist = IdleHist
    /\ ProcessInit

OnePassNext ==
    \/ StartBackup
    \/ Main
    \/ \E k \in Keys : Inner(k)
    \/ \E k \in Keys : Outer(k)

FairSpec == OnePassInit /\ [][OnePassNext]_vars /\ Fairness

\* ============================================================ properties
\* The backup pass has printed its completion line and returned.
Finalized == prog = "backup" /\ pc = "return"

\* log.Fatalf after a failed NextPage.
Aborted == prog = "backup" /\ pc = "fatal"

\* Tasks that hold a permit: acquired and not yet released.
PermitHolders == {k \in Keys : ghost[k].acquired > ghost[k].released}

\* The digest of the compressed source bytes, as hex.
SourceDigest(k) == Hex(Md5Sum(Compress(ghost[k].src.body)))

\* The skip check of task k ran to its comparison: the mode is incremental, the
\* source read opened, the attribute lookup returned the stored object and the
\* hash pass read the whole body.
SkipChecked(k) ==
    /\ ~fullBackup
    /\ ghost[k].getOk /\ ghost[k].attrsOk /\ ghost[k].hashOk
    /\ ghost[k].dst.exists

\* C1: with a budget K >= 1, at no instant do more than K tasks hold a permit.
C1_PermitBound ==
    palalellNum >= 1 =>
        /\ Cardinality(PermitHolders) <= palalellNum
        /\ sem <= palalellNum

\* C1 witness: the budget of 2 is used up while the next object waits for a permit.
C1_Witness ==
    /\ Running /\ palalellNum = 2 /\ pc = "acquire"
    /\ Cardinality(PermitHolders) = 2

\* C2: every dispatched object's task sends exactly one outcome on its channel
\* and the outer goroutine receives exactly one: no exit path of the transfer
\* ends without a send, none sends twice, and a finished batch has one outcome
\* received for every object it dispatched.
C2_ExactlyOneOutcome ==
    \A k \in Keys :
        /\ ghost[k].sent <= 1
        /\ ghost[k].recvd <= ghost[k].sent
        /\ task[k].inner \in {"defers", "done"} => ghost[k].sent = 1
        /\ task[k].outer \in {"append", "wgdone", "release", "done"} => ghost[k].recvd = 1
        /\ (Finalized /\ ghost[k].launched) => (ghost[k].sent = 1 /\ ghost[k].recvd = 1)
        /\ Finalized => (ghost[k].launched <=> k \in DOMAIN s3)

\* C2 witness: a finished batch in which the three kinds of outcome occurred.
C2_Witness ==
    /\ Finalized
    /\ tally.Succeeded >= 1 /\ tally.Skipped >= 1 /\ tally.Failed >= 1

\* C3: when exactly one object of a finished batch failed, every other object
\* has the outcome Succeeded or Skipped, the batch reports 1 error and counts
\* all M objects.
C3_FaultIsolation ==
    (Finalized /\ tally.Failed = 1) =>
        /\ tally.Succeeded + tally.Skipped = NumObjects - 1
        /\ summary[1].errors = 1
        /\ summary[1].total = NumObjects

\* C3 witness: a finished batch of three objects over two pages, one failed.
C3_Witness ==
    /\ Finalized /\ tally.Failed = 1 /\ NumObjects = 3 /\ palalellNum = 2

\* C4: the reported skipped count is the number of tasks whose outcome was
\* Skipped and the reported error count the number whose outcome was Failed.
C4_NoLostUpdate ==
    Finalized =>
        /\ summary[1].skipped = tally.Skipped
        /\ summary[1].errors = tally.Failed

\* C5: in incremental mode, when the skip check finds the stored digest equal to
\* the digest of the compressed source bytes, the outcome is Skipped, no
\* destination write stream is made for the key and the stored object stays as
\* it was.
C5_SkipOnEqualDigest ==
    \A k \in Keys :
        (SkipChecked(k) /\ Hex(ghost[k].dst.md5) = SourceDigest(k)) =>
            /\ ghost[k].outcome \in {"none", "Skipped"}
            /\ task[k].inner \in {"defers", "done"} => ghost[k].outcome = "Skipped"
            /\ ~ghost[k].wopened
            /\ gcs[k] = ghost[k].dst

\* C5 witness: a task skipped its object after finding the digests equal.
C5_Witness ==
    \E k \in Keys :
        /\ SkipChecked(k) /\ Hex(ghost[k].dst.md5) = SourceDigest(k)
        /\ ghost[k].outcome = "Skipped"

\* C6: in incremental mode, when the skip check finds the digests different and
\* the task succeeds, the archive holds the compression of the complete source
\* bytes, so its digest equals the digest of the compressed source.
C6_RewriteOnDifferentDigest ==
    \A k \in Keys :
        (/\ SkipChecked(k) /\ Hex(ghost[k].dst.md5) # SourceDigest(k)
         /\ ghost[k].outcome = "Succeeded") =>
            /\ gcs[k].exists
            /\ gcs[k].content = Compress(ghost[k].src.body)
            /\ Hex(gcs[k].md5) = SourceDigest(k)

\* C7: the second of two failure-free incremental passes over an unchanged
\* source reports skipped = total and errors = 0 and leaves the archive as it
\* found it.
C7_SecondPassSkipsAll ==
    (Finalized /\ hist.second /\ hist.clean) =>
        /\ summary[1].skipped = summary[1].total
        /\ summary[1].errors = 0
        /\ gcs = hist.gcs0

\* C8: an object restored from its backup has the bytes and the metadata the
\* source object had when it was backed up.
C8_RoundTrip ==
    \A k \in hist.restored : s3[k] = hist.backed[k][1]

\* C9: no task releases more than once or more than it acquired, and when the
\* batch is finalized every launched task has released its permit: all permits
\* are free.
C9_AllPermitsReleased ==
    /\ \A k \in Keys : ghost[k].released <= ghost[k].acquired /\ ghost[k].released <= 1
    /\ Finalized => (sem = 0 /\ \A k \in Keys : ghost[k].launched => ghost[k].released = 1)

\* The first key of the page whose request failed.
FailedPageStart == IF pager.first THEN 1 ELSE pager.token

\* C10: when a listing page request fails, no summary is printed, no webhook is
\* sent, exactly the objects of the earlier pages were dispatched, and each of
\* them has had its outcome received and its WaitGroup count returned.
C10_AbortOnListingFailure ==
    Aborted =>
        /\ summary = <<>>
        /\ ~webhookSent
        /\ wg = 0
        /\ \A k \in Keys :
              /\ ghost[k].launched <=> (k \in DOMAIN s3 /\ k < FailedPageStart)
              /\ ghost[k].launched =>
                    (ghost[k].recvd = 1 /\ task[k].outer \in {"release", "done"})

\* C10 witness: the request for a later page failed after objects were dispatched.
C10_Witness ==
    Aborted /\ \E k \in Keys : ghost[k].launched

\* The listing page a key is on.
PageOf(k) == (k - 1) \div PageSize

\* Tasks whose outcome the outer goroutine has not yet recorded.
InFlight == {k \in Keys : task[k].outer \in {"recv", "append"}}

\* C11: pages are taken in listing order and the next page is requested only
\* when every task dispatched for the current one has recorded its outcome:
\* the dispatched keys are a prefix of the listing, the tasks in flight are
\* all on the current page, and at the request for a page none is in flight.
C11_PageBarrier ==
    prog = "backup" =>
        /\ \A k \in Keys : ghost[k].launched =>
                /\ k \in DOMAIN s3
                /\ \A j \in 1..k : ghost[j].launched
        /\ \A j, k \in InFlight : PageOf(j) = PageOf(k)
        /\ \A k \in InFlight : \E i \in 1..Len(page) : page[i] = k /\ i < idx
        /\ \A i \in 1..Len(page) : page[i] = PageOf(page[1]) * PageSize + i
        /\ pc = "loop" => (InFlight = {} /\ wg = 0)
        /\ \A k \in Keys :
              (ghost[k].launched /\ page # <<>> /\ PageOf(k) < PageOf(page[1])) =>
                  task[k].outer \in {"release", "done"}

\* C11 witness: the second page's task is in flight after both tasks of the
\* first page ran in parallel and recorded their outcomes.
C11_Witness ==
    /\ Running /\ palalellNum = 2 /\ NumObjects = 3
    /\ InFlight = {3}
    /\ tally.Succeeded + tally.Skipped + tally.Failed >= 2

\* C12: a task is reported Succeeded only after its compressor was flushed and
\* closed and its destination write stream was closed after that: once the
\* outcome Succeeded is sent, the destination object is stored, the compressor
\* is closed and no compressor operation of the task is still to come.
C12_CompressorClosedFirst ==
    \A k \in Keys :
        ghost[k].outcome = "Succeeded" =>
            /\ gcs[k].exists
            /\ ~task[k].snappyOpen
            /\ task[k].inner = "done"

\* C13: a task in which a step failed sends an error, never nil, so that its
\* outcome is Failed and not Succeeded or Skipped, and every such task has
\* added one entry to the error list by the time the batch is finalized.
C13_FailureRecorded ==
    /\ \A k \in Keys :
          task[k].errCh # <<>> =>
              (Head(task[k].errCh) = "nil" <=> ghost[k].outcome \in {"Succeeded", "Skipped"})
    /\ \A k \in Keys :
          task[k].outer = "append" => task[k].err # "nil"
    /\ Finalized => Len(errs) = tally.Failed

\* C15: with a budget of at least 1, a backup pass that was started ends: it
\* is finalized with its summary printed, whatever objects fail, unless a
\* listing request fails and the process is ended by that.
C15_EventuallyFinalized ==
    (prog = "backup" /\ palalellNum >= 1) ~> ((Finalized /\ summary # <<>>) \/ Aborted)

\* C15 witness: a batch of three objects on two pages, all of which failed,
\* is finalized.
C15_Witness ==
    /\ Finalized /\ palalellNum >= 1 /\ NumObjects = 3
    /\ tally.Failed = 3 /\ summary # <<>>

\* C16: a backup pass over a source bucket without objects takes no permit,
\* launches no task, makes no destination write stream, leaves the archive as
\* it is, and is finalized with total = 0, skipped = 0, errors = 0.
C16_EmptyBucket ==
    (prog = "backup" /\ NumObjects = 0) =>
        /\ sem = 0 /\ wg = 0
        /\ \A k \in Keys :
              /\ ~ghost[k].launched /\ ghost[k].acquired = 0 /\ ~ghost[k].wopened
              /\ task[k] = IdleTask
        /\ gcs = hist.gcs0
        /\ pc \notin {"acquire"}
        /\ Finalized => summary = <<[total |-> 0, skipped |-> 0, errors |-> 0]>>

\* C16 witness: the pass over the empty bucket is finalized.
C16_Witness ==
    Finalized /\ NumObjects = 0 /\ summary # <<>>

\* C17: the archive object of a key changes only in the step in which that
\* key's own task closes its destination write stream with success, the
\* compressor flushed before: the task is then Succeeded and nothing is left
\* in the compressor's buffer.  A task that is Failed or Skipped has left its
\* key's archive object as it found it.
C17_WriteOnlyOnClose ==
    [][\A k \in Keys :
          /\ gcs'[k] # gcs[k] =>
                /\ task[k].inner = "close"
                /\ ghost[k].outcome = "none" /\ ghost'[k].outcome = "Succeeded"
                /\ task'[k].snappyWriter.ibuf = <<>>
                /\ \A j \in Keys \ {k} : gcs'[j] = gcs[j]
          /\ ghost'[k].outcome \in {"Failed", "Skipped"} => gcs'[k] = ghost'[k].dst]_vars

\* C17 witness: a task whose destination close failed, for a key the archive
\* already had an object of, which is as it was.
C17_Witness ==
    \E k \in Keys :
        /\ ghost[k].outcome = "Failed" /\ ghost[k].wopened
        /\ task[k].snappyOpen /\ task[k].snappyWriter.hdr
        /\ ghost[k].dst.exists /\ gcs[k] = ghost[k].dst

\* Tasks whose transfer goroutine still has stream operations to do: it was
\* started and has not run its deferred closes yet.
Transferring == {k \in Keys : task[k].inner \notin {"none", "done"}}

\* C18: a task's transfer goroutine does all its stream operations, its
\* deferred compressor close included, while the task holds its permit, so
\* with a budget K >= 1 at most K transfers are at work at any instant and
\* none is when the page barrier has let the main goroutine pass.
C18_IoUnderPermit ==
    (prog = "backup" /\ palalellNum >= 1) =>
        /\ \A k \in Transferring : k \in PermitHolders
        /\ Cardinality(Transferring) <= palalellNum
        /\ pc \in {"loop", "return", "fatal"} => Transferring = {}

\* C19: the total is the number of tasks launched so far, counted by the main
\* goroutine at dispatch; at finalization it is the number of keys listed and
\* the number of outcomes, whatever they are.
C19_TotalCountsDispatches ==
    prog = "backup" =>
        /\ totalObjects = Cardinality({k \in Keys : ghost[k].launched})
        /\ totalObjects = Cardinality({k \in Keys : ghost[k].acquired = 1})
        /\ Finalized =>
              /\ summary[1].total = NumObjects
              /\ summary[1].total = tally.Succeeded + tally.Skipped + tally.Failed

\* C19 witness: a finalized batch of three objects on two pages with outcomes
\* of more than one kind.
C19_Witness ==
    /\ Finalized /\ NumObjects = 3 /\ summary[1].total = 3
    /\ tally.Failed >= 1 /\ tally.Succeeded >= 1

\* C20: in full mode no task looks up the destination attributes or runs the
\* hash pass, none is Skipped and the skipped count stays 0; a task whose
\* source read opened and which succeeds has stored the compression of the
\* complete source bytes, with the source's metadata.
C20_FullModeRewrites ==
    (prog = "backup" /\ fullBackup) =>
        /\ skippedObjects = 0 /\ tally.Skipped = 0
        /\ Finalized => summary[1].skipped = 0
        /\ \A k \in Keys :
              /\ task[k].inner \notin {"attrs", "hashcopy", "skipload", "skipstore"}
              /\ ~ghost[k].attrsOk /\ ~ghost[k].hashOk /\ ~task[k].hashOpen
              /\ ghost[k].outcome # "Skipped"
              /\ (ghost[k].getOk /\ task[k].inner \notin {"get", "newwriter"}) =>
                    ghost[k].wopened
              /\ ghost[k].outcome = "Succeeded" =>
                    /\ ghost[k].getOk
                    /\ gcs[k] = GcsObject(Compress(ghost[k].src.body),
                                           CopyMeta(ZeroAttrs, ghost[k].src.meta))

\* C20 witness: in full mode a task has written again an object whose stored
\* backup had the digest of the unchanged source.
C20_Witness ==
    /\ prog = "backup" /\ fullBackup
    /\ \E k \in Keys :
          /\ ghost[k].outcome = "Succeeded"
          /\ ghost[k].dst.exists
          /\ Hex(ghost[k].dst.md5) = SourceDigest(k)
          /\ ghost[k].src.body # <<>>

\* The lookup of task k's destination attributes did not return an object:
\* the mode is incremental, the source read opened and the task went past
\* Attrs with an error (object not found, or any other).
LookupMissed(k) ==
    /\ ~fullBackup
    /\ ghost[k].getOk /\ ~ghost[k].attrsOk
    /\ task[k].inner \notin {"get", "attrs"}

\* C21: in incremental mode a task whose destination lookup found no object
\* or failed is not skipped and runs no hash pass, sends no error for the
\* lookup (it goes on to make the destination write stream, and if it fails
\* it fails in the write), and when it succeeds the archive holds the
\* compression of the complete source bytes.
C21_LookupMissWrites ==
    \A k \in Keys :
        LookupMissed(k) =>
            /\ ghost[k].outcome # "Skipped"
            /\ ~ghost[k].hashOk /\ ~task[k].hashOpen
            /\ task[k].inner = "newwriter" => (ghost[k].sent = 0 /\ task[k].errCh = <<>>)
            /\ task[k].inner # "newwriter" => ghost[k].wopened
            /\ ghost[k].outcome = "Succeeded" =>
                  /\ gcs[k].exists
                  /\ gcs[k].content = Compress(ghost[k].src.body)
                  /\ Decompress(gcs[k].content) = [ok |-> TRUE, data |-> ghost[k].src.body]

\* C21 witness: the lookup failed for a key the archive has an object of, and
\* the task wrote the object again.
C21_Witness ==
    \E k \in Keys :
        /\ LookupMissed(k) /\ ghost[k].dst.exists
        /\ ghost[k].outcome = "Succeeded"
        /\ ghost[k].src.body # <<>>

\* The five standard attributes.
StandardAttrs == {"ContentType", "ContentEncoding", "ContentDisposition",
                  "ContentLanguage", "CacheControl"}

\* C22: the object a backup write stores has each standard attribute set to
\* the source's value when the source provides it and unset when it does not,
\* and has as user metadata the source's keys and values and no other.
C22_MetadataCopied ==
    \A k \in Keys :
        ghost[k].outcome = "Succeeded" =>
            /\ \A f \in StandardAttrs :
                  /\ ghost[k].src.meta[f] # <<>> => gcs[k].attrs[f] = ghost[k].src.meta[f][1]
                  /\ ghost[k].src.meta[f] = <<>> => gcs[k].attrs[f] = ""
            /\ gcs[k].attrs.Metadata.kv = ghost[k].src.meta.Metadata.kv
            /\ gcs[k].attrs.Metadata.nil = ghost[k].src.meta.Metadata.nil

\* C22 witness: an object with some attributes set and some not, and with user
\* metadata, was written.
C22_Witness ==
    \E k \in Keys :
        /\ ghost[k].outcome = "Succeeded"
        /\ ghost[k].src.meta.ContentType # <<>>
        /\ ghost[k].src.meta.CacheControl = <<>>
        /\ ghost[k].src.meta.Metadata.kv # {}

\* The archive objects the restore pass has enumerated so far.
Enumerated == {k \in Keys : gcs[k].exists /\ k < rit}

\* C23: in the restore pass the total is the number of objects enumerated and
\* each of them gets one restore attempt; the error count is the number of
\* failures (of a listing request, of opening an archive reader, of an
\* upload), each counted once; and the pass ends, with its summary printed,
\* when and only when the listing is at its end, every listed object attempted.
C23_RestoreCounts ==
    prog = "restore" =>
        /\ totalObjects = Cardinality(Enumerated)
        /\ totalErrors = tally.Failed
        /\ pc = "rnext" =>
              totalObjects = tally.Succeeded + tally.Failed - (IF IteratorFailed THEN 1 ELSE 0)
        /\ pc = "rreturn" =>
              /\ Remaining = {}
              /\ summary = <<[total |-> totalObjects, skipped |-> 0, errors |-> totalErrors]>>

\* What an error-list entry would be that carried the key of object k together
\* with the cause.
ErrorNaming(k) == ToString(<<k, "err">>)

\* C24: the entry that the outer goroutine of a failed task appends to the
\* error list carries the key of the task's object with the cause, so that
\* every entry of a finalized batch's error list names an object of the bucket.
C24_ErrorsNameTheirObject ==
    /\ \A k \in Keys : task[k].outer = "append" => task[k].err = ErrorNaming(k)
    /\ Finalized => \A i \in 1..Len(errs) : \E k \in DOMAIN s3 : errs[i] = ErrorNaming(k)

\* C25: a budget of 0 or less is taken as it is parsed, and a backup pass with
\* such a budget over a bucket with objects gets its first page and then waits
\* in its first Acquire: no task is launched, no permit is held, nothing is
\* written, and the pass is never finalized.
C25_NonPositiveBudgetBlocks ==
    (prog = "backup" /\ palalellNum <= 0 /\ NumObjects > 0) =>
        /\ ~Finalized /\ summary = <<>> /\ ~webhookSent
        /\ sem = 0 /\ wg = 0 /\ totalObjects = 0
        /\ PermitHolders = {}
        /\ \A k \in Keys : ~ghost[k].launched /\ task[k] = IdleTask
        /\ gcs = hist.gcs0
        /\ pc \in {"loop", "acquire", "fatal"}
        /\ pc = "acquire" => (idx = 1 /\ ~ENABLED Dispatch)

\* C25 witness: with the least budget the main goroutine is in the Acquire
\* for the first object of the first page.
C25_Witness ==
    /\ prog = "backup" /\ palalellNum = -MaxNegBudget
    /\ NumObjects > 0
    /\ pc = "acquire" /\ idx = 1 /\ ~pager.first

====
